---- MODULE Spec2Model ----
(***************************************************************************)
(* Model of the useListTransform hook (src/src/useListTransform.ts).       *)
(*                                                                         *)
(* The hook keeps a reducer state {data, list, loading, error}, a run      *)
(* counter (transformListId), the latest stage list (transforms) and any   *)
(* number of in-flight asynchronous runs of transformList.  One reactive   *)
(* pass is a Render (the body of the hook) followed by Effects (the two    *)
(* useEffect callbacks); promise continuations (Settle) and the callers'   *)
(* setData / updateData / resetData interleave with them.                  *)
(*                                                                         *)
(* Optional JavaScript values are sets of at most one element: {} is       *)
(* undefined/null, {x} is the value x.  An object is a record [tag, val]   *)
(* whose tag stands for its identity (Object.is compares tag and value).   *)
(***************************************************************************)
EXTENDS Integers, Sequences, FiniteSets, TLC

VARIABLES options, state, transformListId, transforms, renderedData, deps,
          pendingEffects, thrown, initialData, runs

vars == <<options, state, transformListId, transforms, renderedData, deps,
          pendingEffects, thrown, initialData, runs>>

\* Largest run identifier the model lets transformList hand out.
MaxRuns == 2

----------------------------------------------------------------------------
\* Optional values.
None == {}

Some(x) == {x}

The(o) == CHOOSE x \in o : TRUE

----------------------------------------------------------------------------
\* Test data: the items and lists of the test-suite.
bob == [name |-> "bob", age |-> "12"]

jess == [name |-> "jess", age |-> "42"]

testList == <<bob, jess>>

\* The list arrays a caller passes as options.list.
ListPool ==
    { [tag |-> "p", items |-> testList],
      [tag |-> "q", items |-> <<jess>>] }

\* A transform-data value: a record over a subset of the keys.
Rec(s, a) ==
    [k \in (IF s = "undefined" THEN {} ELSE {"searchTerm"})
           \cup (IF a = "undefined" THEN {} ELSE {"age"})
        |-> IF k = "searchTerm" THEN s ELSE a]

\* Property read data[k]: undefined when the key is missing.
Get(d, k) == IF k \in DOMAIN d THEN d[k] ELSE "undefined"

\* The transform-data objects a caller passes to setData or as
\* options.transformData.
DataPool ==
    { [tag |-> "p", val |-> Rec("jess", "undefined")],
      [tag |-> "p", val |-> Rec("undefined", "12")] }

\* The partial objects a caller passes to updateData.
Partials == { Rec("undefined", "12") }

\* A wider choice of transform data and partial objects, for the
\* specification of the mutation API.
WideDataPool ==
    DataPool \cup { [tag |-> "q", val |-> Rec("jess", "undefined")],
                    [tag |-> "p", val |-> Rec("bob", "12")] }

WidePartials ==
    Partials \cup { Rec("bob", "undefined"), Rec("jess", "42") }

----------------------------------------------------------------------------
\* Errors: each thrown Error is a new object, identified by the run and the
\* stage that created it.
Err(name, id, k) == [name |-> name, message |-> "error", run |-> id, stage |-> k]

\* items.filter(item => item[field] === value)
FilterBy(items, field, value) ==
    SelectSeq(items, LAMBDA item : item[field] = value)

\* transformedList.find(result) in place of filter: the first match alone.
ApplyPredicateFirst(items, pred) ==
    LET kept == FilterBy(items, pred.field, pred.value)
    IN  IF kept = <<>> THEN <<>> ELSE <<kept[1]>>

\* transformedList.filter(result) for a predicate returned by a stage.
ApplyPredicate(items, pred) == FilterBy(items, pred.field, pred.value)

\* The result of calling a stage with {list, data, previousData}:
\*   kind "list"    - an array,
\*   kind "fn"      - a predicate function,
\*   kind "throw"   - the call throws,
\*   kind "promise" - a Promise that later resolves with list or rejects
\*                    with error.
Result(kind, list, pred, settle, error) ==
    [kind |-> kind, list |-> list, pred |-> pred, settle |-> settle,
     error |-> error]

NoPred == [field |-> "name", value |-> "undefined"]

bySearchTerm(p, id, k) ==
    Result("fn", <<>>, [field |-> "name", value |-> Get(p.data, "searchTerm")],
           "none", None)

byAge(p, id, k) ==
    Result("list", FilterBy(p.list, "age", Get(p.data, "age")), NoPred,
           "none", None)

byThrowError(p, id, k) ==
    Result("throw", <<>>, NoPred, "none", Some(Err("Error", id, k)))

byAsync(p, id, k) ==
    Result("promise", FilterBy(p.list, "name", Get(p.data, "searchTerm")),
           NoPred, "resolve", None)

byAsyncMaybeError(p, id, k) ==
    IF Get(p.data, "searchTerm") # "undefined"
    THEN Result("promise", <<>>, NoPred, "reject", Some(Err("Error", id, k)))
    ELSE Result("promise", p.list, NoPred, "resolve", None)

\* Calling the value undefined (transform option omitted) is a TypeError.
callUndefined(p, id, k) ==
    Result("throw", <<>>, NoPred, "none", Some(Err("TypeError", id, k)))

\* transform({list, data, previousData})
Invoke(stage, p, id, k) ==
    CASE stage = "bySearchTerm" -> bySearchTerm(p, id, k)
      [] stage = "byAge" -> byAge(p, id, k)
      [] stage = "byThrowError" -> byThrowError(p, id, k)
      [] stage = "byAsync" -> byAsync(p, id, k)
      [] stage = "byAsyncMaybeError" -> byAsyncMaybeError(p, id, k)
      [] OTHER -> callUndefined(p, id, k)

\* The values a caller passes as options.transform: an array of stages, a
\* single stage function, or nothing.
TransformOpts ==
    { [kind |-> "array", stages |-> <<"bySearchTerm", "byAge">>],
      [kind |-> "array", stages |-> <<"byAsync", "bySearchTerm">>],
      [kind |-> "array", stages |-> <<"byAsyncMaybeError">>],
      [kind |-> "array", stages |-> <<"byThrowError", "byAge">>],
      [kind |-> "fn", stages |-> <<"byAge">>],
      [kind |-> "undefined", stages |-> <<>>] }

toArray(value) ==
    IF value.kind = "array" THEN value.stages
    ELSE IF value.kind = "fn" THEN <<value.stages[1]>>
    ELSE <<"undefined">>

----------------------------------------------------------------------------
\* The reducer.
SET_LIST == "SET_LIST"

SET_DATA == "SET_DATA"

UPDATE_DATA == "UPDATE_DATA"

RESET_DATA == "RESET_DATA"

SET_LOADING == "SET_LOADING"

SET_ERROR == "SET_ERROR"

\* The spread with the operands in the other order: {...b, ...a}.
SpreadReversed(a, b) ==
    LET av == IF a = None THEN Rec("undefined", "undefined") ELSE The(a).val
    IN  [k \in DOMAIN av \cup DOMAIN b |-> IF k \in DOMAIN av THEN av[k] ELSE b[k]]

\* {...a, ...b} on an optional record a and a record b.
Spread(a, b) ==
    LET av == IF a = None THEN Rec("undefined", "undefined") ELSE The(a).val
    IN  [k \in DOMAIN av \cup DOMAIN b |-> IF k \in DOMAIN b THEN b[k] ELSE av[k]]

\* The reducer with a SET_ERROR that keeps the list.
transformReducerKeepList(s, action) ==
    CASE action.type = SET_LIST ->
            [s EXCEPT !.list = Some(action.payload), !.loading = FALSE]
      [] action.type = SET_DATA ->
            [s EXCEPT !.data = action.payload]
      [] action.type = UPDATE_DATA ->
            [s EXCEPT !.data =
                Some([tag |-> "fresh", val |-> Spread(s.data, action.payload)])]
      [] action.type = RESET_DATA ->
            [s EXCEPT !.data = action.payload]
      [] action.type = SET_LOADING ->
            [s EXCEPT !.loading = action.payload, !.error = None]
      [] action.type = SET_ERROR ->
            [s EXCEPT !.error = Some(action.payload), !.loading = FALSE]
      [] OTHER -> s

\* The reducer with a SET_LOADING that keeps the error.
transformReducerKeepError(s, action) ==
    CASE action.type = SET_LIST ->
            [s EXCEPT !.list = Some(action.payload), !.loading = FALSE]
      [] action.type = SET_DATA ->
            [s EXCEPT !.data = action.payload]
      [] action.type = UPDATE_DATA ->
            [s EXCEPT !.data =
                Some([tag |-> "fresh", val |-> Spread(s.data, action.payload)])]
      [] action.type = RESET_DATA ->
            [s EXCEPT !.data = action.payload]
      [] action.type = SET_LOADING ->
            [s EXCEPT !.loading = action.payload]
      [] action.type = SET_ERROR ->
            [s EXCEPT !.error = Some(action.payload), !.list = None,
                      !.loading = FALSE]
      [] OTHER -> s

\* The reducer with a SET_DATA that also turns loading on.
transformReducerDataLoading(s, action) ==
    CASE action.type = SET_LIST ->
            [s EXCEPT !.list = Some(action.payload), !.loading = FALSE]
      [] action.type = SET_DATA ->
            [s EXCEPT !.data = action.payload, !.loading = TRUE]
      [] action.type = UPDATE_DATA ->
            [s EXCEPT !.data =
                Some([tag |-> "fresh", val |-> Spread(s.data, action.payload)])]
      [] action.type = RESET_DATA ->
            [s EXCEPT !.data = action.payload]
      [] action.type = SET_LOADING ->
            [s EXCEPT !.loading = action.payload, !.error = None]
      [] action.type = SET_ERROR ->
            [s EXCEPT !.error = Some(action.payload), !.list = None,
                      !.loading = FALSE]
      [] OTHER -> s

\* The reducer with a SET_LIST that leaves loading as it is.
transformReducerKeepLoading(s, action) ==
    CASE action.type = SET_LIST ->
            [s EXCEPT !.list = Some(action.payload)]
      [] action.type = SET_DATA ->
            [s EXCEPT !.data = action.payload]
      [] action.type = UPDATE_DATA ->
            [s EXCEPT !.data =
                Some([tag |-> "fresh", val |-> Spread(s.data, action.payload)])]
      [] action.type = RESET_DATA ->
            [s EXCEPT !.data = action.payload]
      [] action.type = SET_LOADING ->
            [s EXCEPT !.loading = action.payload, !.error = None]
      [] action.type = SET_ERROR ->
            [s EXCEPT !.error = Some(action.payload), !.list = None,
                      !.loading = FALSE]
      [] OTHER -> s

transformReducer(s, action) ==
    CASE action.type = SET_LIST ->
            [s EXCEPT !.list = Some(action.payload), !.loading = FALSE]
      [] action.type = SET_DATA ->
            [s EXCEPT !.data = action.payload]
      [] action.type = UPDATE_DATA ->
            [s EXCEPT !.data =
                Some([tag |-> "fresh", val |-> Spread(s.data, action.payload)])]
      [] action.type = RESET_DATA ->
            [s EXCEPT !.data = action.payload]
      [] action.type = SET_LOADING ->
            [s EXCEPT !.loading = action.payload, !.error = None]
      [] action.type = SET_ERROR ->
            [s EXCEPT !.error = Some(action.payload), !.list = None,
                      !.loading = FALSE]
      [] OTHER -> s

\* dispatch(action) while a run executes: c is the pair of the reducer state
\* and the record of the executing run, whose trace notes the dispatch.
dispatch(c, action) ==
    [state |-> transformReducer(c.state, action),
     run |-> [c.run EXCEPT !.trace = Append(@, action.type)]]

\* A callback of the options, noted in the trace of the executing run.
Call(c, name) == [c EXCEPT !.run.trace = Append(@, name)]

\* isLatestTransform without the comparison.
isLatestTransformAlways(current, listId) == TRUE

isLatestTransform(current, listId) == current = listId

\* setList calling onListUpdate before the staleness check.
setListEager(c, payload, transId, current) ==
    LET c0 == [Call(c, "onListUpdate") EXCEPT !.run.updates = Append(@, payload)]
    IN  IF ~isLatestTransform(current, transId) THEN c0
        ELSE dispatch(Call(c0, "onLoading(false)"),
                      [type |-> SET_LIST, payload |-> payload])

setList(c, payload, transId, current) ==
    IF ~isLatestTransform(current, transId) THEN c
    ELSE LET c1 == Call(c, "onLoading(false)")
             c2 == [Call(c1, "onListUpdate") EXCEPT
                        !.run.updates = Append(@, payload)]
         IN  dispatch(c2, [type |-> SET_LIST, payload |-> payload])

setLoading(c, payload) ==
    dispatch(Call(c, IF payload THEN "onLoading(true)" ELSE "onLoading(false)"),
             [type |-> SET_LOADING, payload |-> payload])

\* setError checking staleness before it calls onError.
setErrorChecked(c, payload, transId, current) ==
    IF ~isLatestTransform(current, transId) THEN c
    ELSE dispatch([Call(c, "onError") EXCEPT !.run.errors = Append(@, payload)],
                  [type |-> SET_ERROR, payload |-> payload])

\* setError dispatching without the staleness check.
setErrorUnchecked(c, payload, transId, current) ==
    dispatch([Call(c, "onError") EXCEPT !.run.errors = Append(@, payload)],
             [type |-> SET_ERROR, payload |-> payload])

setError(c, payload, transId, current) ==
    LET c1 == [Call(c, "onError") EXCEPT !.run.errors = Append(@, payload)]
    IN  IF ~isLatestTransform(current, transId) THEN c1
        ELSE dispatch(c1, [type |-> SET_ERROR, payload |-> payload])

----------------------------------------------------------------------------
\* usePrevious(state.data): the value of state.data in the preceding
\* reactive pass, undefined in the first one.
usePrevious(d) == IF d = None THEN None ELSE The(d).data

\* The value of an optional object, without its identity.
ValueOf(d) == IF d = None THEN None ELSE Some(The(d).val)

\* transformList returns: the locals of the call are gone, what the call did
\* (its trace and the arguments of its callbacks) stays on record.
Return(c, status) ==
    [c EXCEPT !.run.status = status, !.run.data = None,
              !.run.previousData = None, !.run.list = <<>>,
              !.run.stages = <<>>, !.run.k = 0, !.run.settle = "none",
              !.run.promised = <<>>, !.run.rejection = None]

\* A catch block without the return: the run goes on to the final setList.
CatchNoReturn(c, ex, id, current) ==
    Return(setList(setError([c EXCEPT !.run.caught = Some(ex)], ex, id, current),
                   c.run.list, id, current),
           "failed")

\* The catch block of transformList.
Catch(c, ex, id, current) ==
    Return(setError([c EXCEPT !.run.caught = Some(ex)], ex, id, current),
           "failed")

\* The stage loop of transformList from stage k on, and the final setList.
\* The loop stops at the first stage that returns a Promise (the run is then
\* suspended at the await) or throws.
RECURSIVE StageLoop(_, _, _, _)
StageLoop(c, id, current, k) ==
    IF k > Len(c.run.stages)
    THEN Return(setList(c, c.run.list, id, current), "completed")
    ELSE IF ~isLatestTransform(current, id)
    THEN Return(c, "aborted")
    ELSE LET p == [list |-> c.run.list, data |-> The(c.run.data),
                   previousData |-> c.run.previousData]
             result == Invoke(c.run.stages[k], p, id, k)
             c1 == [Call(c, "invoke") EXCEPT
                        !.run.invoked = Append(@, c.run.stages[k]),
                        !.run.calls = Append(@, p)]
         IN  CASE result.kind = "promise" ->
                    [c1 EXCEPT !.run.status = "suspended", !.run.k = k,
                               !.run.settle = result.settle,
                               !.run.promised = result.list,
                               !.run.rejection = result.error]
               [] result.kind = "fn" ->
                    StageLoop([c1 EXCEPT !.run.list =
                                   ApplyPredicate(c.run.list, result.pred)],
                              id, current, k + 1)
               [] result.kind = "throw" ->
                    Catch(c1, The(result.error), id, current)
               [] OTHER ->
                    StageLoop([c1 EXCEPT !.run.list = result.list],
                              id, current, k + 1)

\* The record of a run that has just been called.  input keeps what the call
\* started from; trace, invoked, calls (the arguments of the stage calls),
\* errors and updates note what it does.
NewRun(data, previousData, list, stages) ==
    [status |-> "running", data |-> data, previousData |-> previousData,
     list |-> list, stages |-> stages, k |-> 0,
     input |-> [list |-> list, data |-> data, previousData |-> previousData,
                stages |-> stages],
     settle |-> "none", promised |-> <<>>, rejection |-> None,
     caught |-> None, trace |-> <<>>, invoked |-> <<>>, calls |-> <<>>,
     errors |-> <<>>, updates |-> <<>>]

\* transformList without the early return for absent transform data: the
\* stages run on an empty data object.
transformListNoEarlyReturn(s, id, data, previousData, list, stages) ==
    LET d == IF data = None THEN Some(Rec("undefined", "undefined")) ELSE data
        c0 == [state |-> s, run |-> NewRun(data, previousData, list, stages)]
        c1 == setLoading([c0 EXCEPT !.run.data = d], TRUE)
    IN  StageLoop(c1, id, id, 1)

\* transformList() up to its first await or its return; id is the run
\* identifier it has just taken.
transformList(s, id, data, previousData, list, stages) ==
    LET c0 == [state |-> s, run |-> NewRun(data, previousData, list, stages)]
        c1 == setLoading(c0, TRUE)
    IN  IF data = None
        THEN Return(setList(c1, list, id, id), "completed")
        ELSE StageLoop(c1, id, id, 1)

\* The continuation dropping the resolved value: the next stage gets the
\* list the awaited stage was given.
ResumeKeepList(s, run, id, current) ==
    LET c0 == [state |-> s, run |-> run]
    IN  IF run.settle = "reject"
        THEN Catch(c0, The(run.rejection), id, current)
        ELSE StageLoop(c0, id, current, run.k + 1)

\* The continuation reading transforms.current and state.data anew rather
\* than going on with what the call started from.
ResumeLive(s, run, id, current) ==
    LET c0 == [state |-> s, run |-> run]
    IN  IF run.settle = "reject"
        THEN Catch(c0, The(run.rejection), id, current)
        ELSE StageLoop([c0 EXCEPT !.run.list = run.promised,
                                  !.run.stages = transforms,
                                  !.run.data = IF s.data = None THEN run.data
                                               ELSE ValueOf(s.data)],
                       id, current, run.k + 1)

\* transformList() from the await on: the promise of stage run.k has settled.
Resume(s, run, id, current) ==
    LET c0 == [state |-> s, run |-> run]
    IN  IF run.settle = "reject"
        THEN Catch(c0, The(run.rejection), id, current)
        ELSE StageLoop([c0 EXCEPT !.run.list = run.promised], id, current,
                       run.k + 1)

----------------------------------------------------------------------------
\* The first evaluation of the hook has returned; its effects are pending.
Init ==
    /\ options \in [list : ListPool,
                    transformData : {None} \cup {Some(d) : d \in DataPool},
                    transform : TransformOpts,
                    throwOnError : BOOLEAN]
    /\ state = [data |-> options.transformData,
                list |-> Some(options.list.items),
                loading |-> FALSE, error |-> None]
    /\ transformListId = 0
    /\ transforms = toArray(options.transform)
    /\ renderedData = options.transformData
    /\ deps = None
    /\ pendingEffects = TRUE
    /\ thrown = None
    /\ initialData = options.transformData
    /\ runs = <<>>

\* An object made by the reducer becomes, once rendered, the object the
\* dependency comparison has seen.
Seen(d) ==
    IF d # None /\ The(d).tag = "fresh"
    THEN Some([The(d) EXCEPT !.tag = "seen"]) ELSE d

\* An evaluation of the hook that returns whatever the error is.
RenderNoThrow(list, transformData, transform) ==
    /\ thrown = None
    /\ ~pendingEffects
    /\ options' = [options EXCEPT !.list = list,
                                  !.transformData = transformData,
                                  !.transform = transform]
    /\ state' = [state EXCEPT !.data = Seen(@)]
    /\ renderedData' = Seen(state.data)
    /\ pendingEffects' = TRUE
    /\ UNCHANGED <<thrown, transformListId, transforms, deps, initialData, runs>>

\* One evaluation of the hook with the options of this pass.
Render(list, transformData, transform) ==
    /\ thrown = None
    /\ ~pendingEffects
    /\ options' = [options EXCEPT !.list = list,
                                  !.transformData = transformData,
                                  !.transform = transform]
    /\ IF options.throwOnError /\ state.error # None
       THEN /\ thrown' = state.error
            /\ UNCHANGED <<state, renderedData, pendingEffects>>
       ELSE /\ state' = [state EXCEPT !.data = Seen(@)]
            /\ renderedData' = Seen(state.data)
            /\ pendingEffects' = TRUE
            /\ UNCHANGED thrown
    /\ UNCHANGED <<transformListId, transforms, deps, initialData, runs>>

\* A dependency array of state.data alone.
DepsChangedDataOnly ==
    \/ deps = None
    \/ The(deps).data # renderedData

\* A dependency array that also holds options.transform.
DepsChangedWithTransform ==
    \/ deps = None
    \/ The(deps).data # renderedData
    \/ The(deps).list # options.list
    \/ transforms # toArray(options.transform)

\* The dependency array [state.data, options.list] differs from the one of
\* the preceding pass (always, in the first pass).
DepsChanged ==
    \/ deps = None
    \/ The(deps).data # renderedData
    \/ The(deps).list # options.list

\* The effects in the other order: transformList is called before
\* transforms.current is refreshed and iterates the stage list of the pass
\* before.
EffectsUpToStale(max) ==
    /\ thrown = None
    /\ pendingEffects
    /\ pendingEffects' = FALSE
    /\ transforms' = toArray(options.transform)
    /\ deps' = Some([data |-> renderedData, list |-> options.list])
    /\ IF deps = None \/ The(deps).data # renderedData
          \/ The(deps).list # options.list
       THEN /\ transformListId < max
            /\ LET id == transformListId + 1
                   c == transformList(state, id, ValueOf(renderedData),
                                      ValueOf(usePrevious(deps)),
                                      options.list.items, transforms)
               IN  /\ transformListId' = id
                   /\ state' = c.state
                   /\ runs' = Append(runs, c.run)
       ELSE UNCHANGED <<transformListId, state, runs>>
    /\ UNCHANGED <<options, renderedData, thrown, initialData>>

\* The effects of a pass: refresh transforms.current, then call
\* transformList when the dependencies changed.  max caps the run identifier.
EffectsUpTo(max) ==
    /\ thrown = None
    /\ pendingEffects
    /\ pendingEffects' = FALSE
    /\ transforms' = toArray(options.transform)
    /\ deps' = Some([data |-> renderedData, list |-> options.list])
    /\ IF DepsChanged
       THEN /\ transformListId < max
            /\ LET id == transformListId + 1
                   c == transformList(state, id, ValueOf(renderedData),
                                      ValueOf(usePrevious(deps)),
                                      options.list.items, transforms')
               IN  /\ transformListId' = id
                   /\ state' = c.state
                   /\ runs' = Append(runs, c.run)
       ELSE UNCHANGED <<transformListId, state, runs>>
    /\ UNCHANGED <<options, renderedData, thrown, initialData>>

Effects == EffectsUpTo(MaxRuns)

\* The promise a suspended run awaits settles and the run continues.
Settle(id) ==
    /\ runs[id].status = "suspended"
    /\ LET c == Resume(state, runs[id], id, transformListId)
       IN  /\ state' = c.state
           /\ runs' = [runs EXCEPT ![id] = c.run]
    /\ UNCHANGED <<options, transformListId, transforms, renderedData, deps,
                   pendingEffects, thrown, initialData>>

\* The caller's handlers run as events; the effects of a pass are flushed
\* before the next event is handled, so none runs while effects are pending.
\* Each dispatches one action and starts no run: the run follows in the
\* Effects of the next pass.

\* setData(data)
setTransform(data) ==
    /\ thrown = None
    /\ ~pendingEffects
    /\ state' = transformReducer(state, [type |-> SET_DATA, payload |-> Some(data)])
    /\ UNCHANGED <<options, transformListId, transforms, renderedData, deps,
                   pendingEffects, thrown, initialData, runs>>

\* updateData(data)
updateTransform(data) ==
    /\ thrown = None
    /\ ~pendingEffects
    /\ state' = transformReducer(state, [type |-> UPDATE_DATA, payload |-> data])
    /\ UNCHANGED <<options, transformListId, transforms, renderedData, deps,
                   pendingEffects, thrown, initialData, runs>>

\* resetData()
resetTransform ==
    /\ thrown = None
    /\ ~pendingEffects
    /\ state' = transformReducer(state, [type |-> RESET_DATA,
                                         payload |-> options.transformData])
    /\ UNCHANGED <<options, transformListId, transforms, renderedData, deps,
                   pendingEffects, thrown, initialData, runs>>

\* The caller keeps options.transformData and options.transform from pass to
\* pass and may pass another list.
Next ==
    \/ \E list \in ListPool :
            Render(list, options.transformData, options.transform)
    \/ Effects
    \/ \E id \in 1..Len(runs) : Settle(id)
    \/ \E data \in DataPool \cup renderedData : setTransform(data)
    \/ \E data \in Partials : updateTransform(data)
    \/ resetTransform

Spec == Init /\ [][Next]_vars

----------------------------------------------------------------------------
\* The mutation API: one list and one asynchronous pipeline, while the caller
\* passes any transform data as options.transformData of a pass and any data
\* to setData and updateData.
InitData ==
    /\ Init
    /\ options.list.tag = "p"
    /\ options.transform = [kind |-> "array", stages |-> <<"byAsyncMaybeError">>]
    /\ ~options.throwOnError

NextData ==
    \/ \E transformData \in {None} \cup {Some(d) : d \in WideDataPool} :
            Render(options.list, transformData, options.transform)
    \/ Effects
    \/ \E id \in 1..Len(runs) : Settle(id)
    \/ \E data \in WideDataPool \cup renderedData : setTransform(data)
    \/ \E data \in WidePartials : updateTransform(data)
    \/ resetTransform

SpecData == InitData /\ [][NextData]_vars

----------------------------------------------------------------------------
\* Setting and resetting the data of a hook configured without transform
\* data, with one list and a synchronous pipeline.  Every run returns in the
\* step that starts it, so one more run than MaxRuns stays small.
MaxSyncRuns == MaxRuns + 1

InitReset ==
    /\ Init
    /\ options.list.tag = "p"
    /\ options.transformData = None
    /\ options.transform = [kind |-> "array",
                            stages |-> <<"bySearchTerm", "byAge">>]
    /\ ~options.throwOnError

NextReset ==
    \/ Render(options.list, options.transformData, options.transform)
    \/ EffectsUpTo(MaxSyncRuns)
    \/ \E data \in WideDataPool \cup renderedData : setTransform(data)
    \/ \E data \in WidePartials : updateTransform(data)
    \/ resetTransform

SpecReset == InitReset /\ [][NextReset]_vars

----------------------------------------------------------------------------
\* A changing stage list: one list, transform data present from the start,
\* while the caller passes any value as options.transform of a pass.
InitStages ==
    /\ Init
    /\ options.list.tag = "p"
    /\ options.transformData # None
    /\ ~options.throwOnError

NextStages ==
    \/ \E transform \in TransformOpts :
            Render(options.list, options.transformData, transform)
    \/ Effects
    \/ \E id \in 1..Len(runs) : Settle(id)
    \/ \E data \in DataPool \cup renderedData : setTransform(data)
    \/ \E data \in Partials : updateTransform(data)
    \/ resetTransform

SpecStages == InitStages /\ [][NextStages]_vars

----------------------------------------------------------------------------
\* Predicate stages on longer lists: synchronous pipelines that begin or end
\* with the predicate stage bySearchTerm, any of three lists, one of which
\* holds two items of the same name around another item.
jess12 == [name |-> "jess", age |-> "12"]

WideListPool ==
    ListPool \cup { [tag |-> "r", items |-> <<jess, bob, jess12>>] }

PredicateTransforms ==
    { [kind |-> "array", stages |-> <<"bySearchTerm", "byAge">>],
      [kind |-> "fn", stages |-> <<"bySearchTerm">>] }

InitFilter ==
    /\ options \in [list : WideListPool,
                    transformData : {Some(d) : d \in WideDataPool},
                    transform : PredicateTransforms,
                    throwOnError : {FALSE}]
    /\ state = [data |-> options.transformData,
                list |-> Some(options.list.items),
                loading |-> FALSE, error |-> None]
    /\ transformListId = 0
    /\ transforms = toArray(options.transform)
    /\ renderedData = options.transformData
    /\ deps = None
    /\ pendingEffects = TRUE
    /\ thrown = None
    /\ initialData = options.transformData
    /\ runs = <<>>

NextFilter ==
    \/ \E list \in WideListPool :
            Render(list, options.transformData, options.transform)
    \/ Effects
    \/ \E data \in WideDataPool \cup renderedData : setTransform(data)
    \/ \E data \in WidePartials : updateTransform(data)
    \/ resetTransform

SpecFilter == InitFilter /\ [][NextFilter]_vars

----------------------------------------------------------------------------
\* Progress.  The effects of a pass that has been committed do run, and the
\* promise the latest-started run awaits does settle; nothing is assumed of
\* the promises of superseded runs, of the caller or of further passes.
SettleLatest == transformListId >= 1 /\ Settle(transformListId)

SpecLive == Spec /\ WF_vars(Effects) /\ WF_vars(SettleLatest)

----------------------------------------------------------------------------
\* Vocabulary of the properties.
RunIds == 1..Len(runs)

Returned(run) == run.status \in {"completed", "failed", "aborted"}

Has(run, ev) == \E i \in 1..Len(run.trace) : run.trace[i] = ev

Count(run, ev) == Cardinality({i \in 1..Len(run.trace) : run.trace[i] = ev})

\* What run r did in the step at hand.
NewEvents(r) ==
    LET old == IF r <= Len(runs) THEN Len(runs[r].trace) ELSE 0
    IN  {runs'[r].trace[i] : i \in (old + 1)..Len(runs'[r].trace)}

\* Run r returns in the step at hand.
Returns(r) ==
    /\ Returned(runs'[r])
    /\ r > Len(runs) \/ ~Returned(runs[r])

\* Run r returned while a newer run was current: it left no commit.
SettledStale(r) ==
    /\ r < transformListId
    /\ Has(runs[r], "invoke")
    /\ \/ runs[r].status = "completed" /\ ~Has(runs[r], SET_LIST)
       \/ runs[r].status = "failed" /\ ~Has(runs[r], SET_ERROR)

\* The pipeline applied to a list and data, without regard to runs: each
\* stage in order on the output of the one before it.
RECURSIVE Pipeline(_, _, _, _, _, _)
Pipeline(stages, list, data, previousData, id, k) ==
    IF k > Len(stages) THEN [error |-> None, list |-> Some(list)]
    ELSE LET r == Invoke(stages[k],
                         [list |-> list, data |-> data,
                          previousData |-> previousData], id, k)
         IN  IF r.error # None THEN [error |-> r.error, list |-> None]
             ELSE Pipeline(stages,
                           IF r.kind = "fn" THEN ApplyPredicate(list, r.pred)
                           ELSE r.list,
                           data, previousData, id, k + 1)

\* The outcome of run id on its own: the source list when the transform data
\* is absent, else the pipeline's result or its first error.
Outcome(id) ==
    LET i == runs[id].input
    IN  IF i.data = None THEN [error |-> None, list |-> Some(i.list)]
        ELSE Pipeline(i.stages, i.list, The(i.data), i.previousData, id, 1)

\* C1: a run that is no longer the current one when it continues changes
\* nothing of the state and does none of SET_LIST, SET_ERROR, onListUpdate,
\* onLoading(false), in whatever order the runs in flight settle.
C1_Theorem ==
    [][\A r \in 1..Len(runs) :
          (r # transformListId /\ runs'[r] # runs[r]) =>
              /\ state' = state
              /\ NewEvents(r) \cap {SET_LIST, SET_ERROR, "onListUpdate",
                                    "onLoading(false)"} = {}]_vars

\* A run whose last stage resolved after a newer run had started.
C1_Witness ==
    \E r \in RunIds :
        /\ SettledStale(r)
        /\ runs[r].status = "completed"
        /\ runs[transformListId].status = "suspended"

\* C2: once the last-started run has returned, the list and the error shown
\* are its outcome (the pipeline's result, or its error and no list),
\* whichever earlier runs settle before or after it.
C2_Theorem ==
    (transformListId >= 1 /\ Returned(runs[transformListId])) =>
        /\ state.list = Outcome(transformListId).list
        /\ state.error = Outcome(transformListId).error
        /\ runs[transformListId].status # "aborted"

\* Two runs have returned, the older one after it was superseded, and the
\* older one alone would have given another list.
C2_Witness ==
    /\ transformListId >= 2
    /\ \A r \in RunIds : Returned(runs[r])
    /\ \E r \in RunIds :
          /\ SettledStale(r)
          /\ Outcome(r).list # Outcome(transformListId).list
    /\ state.list # None

\* C3: each run in which a stage failed has called onError once, with the
\* value thrown or rejected, also when it had been superseded; every other
\* run has not called it.
C3_Theorem ==
    \A r \in RunIds :
        /\ Count(runs[r], "onError") = Len(runs[r].errors)
        /\ runs[r].status = "failed" =>
              /\ runs[r].caught # None
              /\ runs[r].caught = Outcome(r).error
              /\ runs[r].errors = <<The(runs[r].caught)>>
        /\ runs[r].status # "failed" =>
              /\ runs[r].caught = None
              /\ runs[r].errors = <<>>

\* A superseded run whose promise rejected has called onError.
C3_Witness ==
    \E r \in RunIds :
        /\ SettledStale(r)
        /\ runs[r].status = "failed"
        /\ Len(runs[r].errors) = 1

\* C4: when a stage of a superseded run fails, the state stays as it is and
\* the run does nothing but call onError.
C4_Theorem ==
    [][\A r \in 1..Len(runs) :
          (r # transformListId /\ ~Returned(runs[r])
             /\ runs'[r].status = "failed") =>
              /\ state' = state
              /\ runs'[r].trace = Append(runs[r].trace, "onError")]_vars

\* A superseded run has failed while the newer run's list is shown with no
\* error.
C4_Witness ==
    \E r \in RunIds :
        /\ SettledStale(r)
        /\ runs[r].status = "failed"
        /\ runs[transformListId].status = "completed"
        /\ state.error = None
        /\ state.list # None

\* C5: when a stage of the current run fails, the error becomes that failure,
\* the list null and loading false, and onError is called once with it.
C5_Theorem ==
    [][\A r \in 1..Len(runs') :
          (r = transformListId' /\ Returns(r) /\ runs'[r].status = "failed") =>
              /\ runs'[r].caught # None
              /\ state'.error = runs'[r].caught
              /\ state'.list = None
              /\ state'.loading = FALSE
              /\ runs'[r].errors = <<The(runs'[r].caught)>>
              /\ Count(runs'[r], "onError") = 1]_vars

\* The current run's promise has rejected.
C5_Witness ==
    /\ transformListId >= 1
    /\ runs[transformListId].status = "failed"
    /\ runs[transformListId].invoked = <<"byAsyncMaybeError">>
    /\ state.error = runs[transformListId].caught
    /\ state.list = None

\* C6: every run that commits a list or an error while it is current has
\* called onLoading twice: first of all with true, and once with false.
C6_Claim ==
    \A r \in RunIds :
        (Has(runs[r], SET_LIST) \/ Has(runs[r], SET_ERROR)) =>
            /\ runs[r].trace[1] = "onLoading(true)"
            /\ Count(runs[r], "onLoading(true)") = 1
            /\ Count(runs[r], "onLoading(false)") = 1

\* C7: a run that completes its stages while current calls onListUpdate
\* once, with the list that becomes the state's list in the same step; a run
\* that fails or completes after it was superseded never calls it.
C7_Theorem ==
    [][\A r \in 1..Len(runs') :
          /\ "onListUpdate" \in NewEvents(r) =>
                /\ r = transformListId'
                /\ runs'[r].status = "completed"
                /\ state'.list = Some(runs'[r].updates[1])
          /\ Returns(r) =>
                /\ Count(runs'[r], "onListUpdate") = Len(runs'[r].updates)
                /\ Len(runs'[r].updates) =
                      IF runs'[r].status = "completed" /\ r = transformListId'
                      THEN 1 ELSE 0]_vars

\* A run without transform data has passed the source list to onListUpdate.
C7_Witness ==
    \E r \in RunIds :
        /\ runs[r].input.data = None
        /\ runs[r].updates = <<runs[r].input.list>>
        /\ runs[r].invoked = <<>>
        /\ state.list = Some(runs[r].input.list)

\* C8: loading is true exactly while the latest-started run has started and
\* not returned.
C8_Theorem ==
    state.loading <=>
        (transformListId >= 1 /\ ~Returned(runs[transformListId]))

\* The current run is suspended and loading, an older run has settled.
C8_Witness ==
    /\ state.loading
    /\ \E r \in RunIds : SettledStale(r)

\* C9: resetData() sets the transform data to the value options.transformData
\* had when the hook was first evaluated.
C9_Claim == [][resetTransform => state'.data = initialData]_vars

\* The value-wise meaning of a merge: new has the keys of old and partial,
\* partial's value where partial has the key, old's value elsewhere.
IsMerge(old, partial, new) ==
    LET oldKeys == IF old = None THEN {} ELSE DOMAIN The(old).val
    IN  /\ DOMAIN new = oldKeys \cup DOMAIN partial
        /\ \A k \in DOMAIN partial : new[k] = partial[k]
        /\ \A k \in oldKeys \ DOMAIN partial : new[k] = The(old).val[k]

\* C10: updateData(partial) sets the transform data to the shallow merge of
\* the data held at the call (including earlier calls not yet rendered) and
\* partial.
C10_Theorem ==
    [][\A partial \in WidePartials :
          updateTransform(partial) =>
              /\ state'.data # None
              /\ IsMerge(state.data, partial, The(state'.data).val)]_vars

\* Two updateData calls since the last pass: the first replaced searchTerm,
\* the second added age.
C10_Witness ==
    /\ renderedData = Some([tag |-> "p", val |-> Rec("jess", "undefined")])
    /\ state.data = Some([tag |-> "fresh", val |-> Rec("bob", "12")])

\* C11: a run that starts without transform data calls no stage and commits
\* the source list unchanged, whether the data was never set or resetData()
\* has returned it to the absent initial value.
C11_Theorem ==
    \A r \in RunIds :
        runs[r].input.data = None =>
            /\ runs[r].invoked = <<>>
            /\ runs[r].status = "completed"
            /\ runs[r].updates = <<runs[r].input.list>>
            /\ runs[r].trace = <<"onLoading(true)", SET_LOADING,
                                 "onLoading(false)", "onListUpdate", SET_LIST>>
            /\ r = transformListId => state.list = Some(runs[r].input.list)

\* The first run had no data, the second ran on data given by setData, and
\* after resetData() the third again has none and shows the source list.
C11_Witness ==
    /\ initialData = None
    /\ transformListId = 3
    /\ runs[1].input.data = None
    /\ runs[2].input.data # None
    /\ runs[2].updates # <<runs[2].input.list>>
    /\ runs[3].input.data = None
    /\ state.list = Some(options.list.items)

\* C12: with throwOnError an evaluation of the hook made while the state's
\* error is set raises that error and does not return; nothing else raises,
\* and without throwOnError no evaluation raises.
C12_Theorem ==
    [][/\ thrown' # thrown =>
            /\ options.throwOnError
            /\ state.error # None
            /\ thrown' = state.error
       /\ (~pendingEffects /\ pendingEffects') =>
            ~(options.throwOnError /\ state.error # None)
       /\ ~options.throwOnError => thrown' = None]_vars

\* An evaluation has raised the error of the failed current run.
C12_Witness ==
    /\ thrown # None
    /\ thrown = state.error
    /\ thrown = runs[transformListId].caught

\* C13: with throwOnError every stage failure of every run, superseded or
\* not, is raised by a later evaluation; the error is therefore in the state,
\* where the evaluation finds it, once the stage has failed.
C13_Claim ==
    [][\A r \in 1..Len(runs') :
          (options.throwOnError /\ Returns(r) /\ runs'[r].status = "failed") =>
              state'.error = runs'[r].caught]_vars

\* s is an initial part of t.
IsPrefix(s, t) ==
    /\ Len(s) <= Len(t)
    /\ \A i \in 1..Len(s) : s[i] = t[i]

\* C14: a run iterates the stage list passed as options.transform in the
\* pass that starts it (the latest pass), and calls stages of that list only.
C14_Theorem ==
    [][Len(runs') > Len(runs) =>
          LET run == runs'[Len(runs')]
          IN  /\ run.input.stages = toArray(options.transform)
              /\ IsPrefix(run.invoked, toArray(options.transform))]_vars

\* The pass that changed the data also replaced the stage list: the second
\* run called the two new stages and not the stage of the first run.
C14_Witness ==
    /\ transformListId = 2
    /\ runs[1].input.stages = <<"byAsyncMaybeError">>
    /\ runs[2].input.stages = <<"bySearchTerm", "byAge">>
    /\ runs[2].input.data # runs[1].input.data
    /\ runs[2].invoked = <<"bySearchTerm", "byAge">>

\* C15: an error in the state is the failure of the latest-started run: the
\* start of a run clears the error, and until that run fails while current
\* the error stays absent, so no earlier run's error shows while a later run
\* loads or after it succeeded.
C15_Theorem ==
    /\ state.error # None =>
          /\ transformListId >= 1
          /\ runs[transformListId].status = "failed"
          /\ state.error = runs[transformListId].caught
    /\ \A r \in RunIds : Has(runs[r], SET_LOADING)

\* An earlier run has put its error in the state; the run started after it
\* is loading and no error shows.
C15_Witness ==
    /\ transformListId >= 2
    /\ Has(runs[transformListId - 1], SET_ERROR)
    /\ runs[transformListId].status = "suspended"
    /\ state.error = None
    /\ state.list = None

\* A pass has ended: its effects have run.
EffectsDone == pendingEffects /\ ~pendingEffects'

\* C16: a pass in which options.list or the transform data differs from the
\* pass before (and the first pass) starts exactly one run, whose identifier
\* is the previous one plus one; no step starts more than one run.
C16_Theorem ==
    [][/\ (EffectsDone /\ (deps = None
                            \/ ValueOf(The(deps).data) # ValueOf(renderedData)
                            \/ The(deps).list # options.list)) =>
            /\ transformListId' = transformListId + 1
            /\ Len(runs') = Len(runs) + 1
       /\ transformListId' \in {transformListId, transformListId + 1}
       /\ Len(runs') = transformListId'
       /\ transformListId' # transformListId => EffectsDone]_vars

\* One pass folded setData and updateData and a new list: the second run
\* started from both.
C16_Witness ==
    /\ transformListId = 2
    /\ runs[1].input.data = Some(Rec("undefined", "12"))
    /\ runs[2].input.data = Some(Rec("jess", "12"))
    /\ runs[2].input.list # runs[1].input.list

\* C17: a step that replaces the transform data (setData, updateData,
\* resetData) changes nothing else: list, loading, error, run identifier and
\* runs stay, no stage or callback is called, no run starts in that step.
C17_Theorem ==
    [][(state'.data # state.data /\ state'.data # Seen(state.data)) =>
          /\ state'.list = state.list
          /\ state'.loading = state.loading
          /\ state'.error = state.error
          /\ transformListId' = transformListId
          /\ runs' = runs
          /\ pendingEffects' = pendingEffects]_vars

\* The data has been replaced while a run is suspended; the run for the new
\* data has not started.
C17_Witness ==
    /\ ~pendingEffects
    /\ state.data # renderedData
    /\ state.loading
    /\ transformListId = 1
    /\ runs[1].input.data = ValueOf(renderedData)

\* The normalized output of the stage call with arguments p: the list
\* filtered by a returned predicate, else the returned or resolved list.
OutputOf(stage, p, id, k) ==
    LET r == Invoke(stage, p, id, k)
    IN  IF r.kind = "fn" THEN ApplyPredicate(p.list, r.pred) ELSE r.list

\* C18: a run calls its stages in declared order, one at a time: while it
\* awaits stage k no later stage has been called; the first stage gets the
\* source list, each later stage the normalized output of the stage before
\* it, and the list committed is the output of the last stage.
C18_Theorem ==
    \A r \in RunIds :
        LET run == runs[r]
            n == Len(run.calls)
        IN  /\ Len(run.invoked) = n
            /\ IsPrefix(run.invoked, run.input.stages)
            /\ run.status = "suspended" => run.k = n
            /\ n >= 1 => run.calls[1].list = run.input.list
            /\ \A k \in 2..n :
                  run.calls[k].list =
                      OutputOf(run.invoked[k - 1], run.calls[k - 1], r, k - 1)
            /\ (run.updates # <<>> /\ run.input.data # None) =>
                  /\ n = Len(run.input.stages)
                  /\ n >= 1 =>
                        run.updates[1] =
                            OutputOf(run.invoked[n], run.calls[n], r, n)
                  /\ n = 0 => run.updates[1] = run.input.list

\* A run of two stages has committed: the second stage got what the first,
\* asynchronous, stage resolved with, a list shorter than the source list.
C18_Witness ==
    \E r \in RunIds :
        /\ runs[r].invoked = <<"byAsync", "bySearchTerm">>
        /\ Len(runs[r].calls[2].list) < Len(runs[r].input.list)
        /\ runs[r].calls[2].list # <<>>
        /\ runs[r].updates = <<runs[r].calls[2].list>>

\* C19: a run in which a stage has failed calls no stage after the failing
\* one and never commits a list, current or not; once failed it does
\* nothing more.
C19_Theorem ==
    [][\A r \in 1..Len(runs') :
          runs'[r].status = "failed" =>
              /\ The(runs'[r].caught).stage = Len(runs'[r].invoked)
              /\ ~Has(runs'[r], SET_LIST)
              /\ ~Has(runs'[r], "onListUpdate")
              /\ runs'[r].updates = <<>>
              /\ (r <= Len(runs) /\ runs[r].status = "failed") =>
                    runs'[r] = runs[r]]_vars

\* The first of two stages threw: the second was never called.
C19_Witness ==
    \E r \in RunIds :
        /\ runs[r].status = "failed"
        /\ runs[r].input.stages = <<"byThrowError", "byAge">>
        /\ runs[r].invoked = <<"byThrowError">>

\* C20 as stated: a stage is called only for the run that is current, and a
\* run that continues after a newer run has started calls no stage, commits
\* nothing and calls no callback.
C20_Claim ==
    [][\A r \in 1..Len(runs') :
          /\ Len(runs'[r].invoked) > (IF r <= Len(runs)
                                      THEN Len(runs[r].invoked) ELSE 0) =>
                r = transformListId'
          /\ (r <= Len(runs) /\ r # transformListId /\ runs'[r] # runs[r]) =>
                /\ state' = state
                /\ NewEvents(r) = {}]_vars

\* C20, amended: a stage is called only for the run that is current; a run
\* that continues after a newer run has started returns in that step, calls
\* no stage and commits nothing, and calls no callback but onError, which it
\* calls exactly when the stage it awaited rejected.
C20_Theorem ==
    [][\A r \in 1..Len(runs') :
          /\ Len(runs'[r].invoked) > (IF r <= Len(runs)
                                      THEN Len(runs[r].invoked) ELSE 0) =>
                r = transformListId'
          /\ (r <= Len(runs) /\ r # transformListId /\ runs'[r] # runs[r]) =>
                /\ state' = state
                /\ Returned(runs'[r])
                /\ runs'[r].invoked = runs[r].invoked
                /\ NewEvents(r) = IF runs[r].settle = "reject"
                                  THEN {"onError"} ELSE {}]_vars

\* A superseded run resumed with a stage left to call and returned without
\* calling it.
C20_Witness ==
    \E r \in RunIds :
        /\ runs[r].status = "aborted"
        /\ runs[r].input.stages = <<"byAsync", "bySearchTerm">>
        /\ runs[r].invoked = <<"byAsync">>
        /\ runs[r].trace = <<"onLoading(true)", SET_LOADING, "invoke">>

\* The items of a list for which a predicate is true, picked one by one in
\* the order of the list.
RECURSIVE Filtered(_, _)
Filtered(items, pred) ==
    IF items = <<>> THEN <<>>
    ELSE (IF Head(items)[pred.field] = pred.value THEN <<Head(items)>> ELSE <<>>)
         \o Filtered(Tail(items), pred)

\* C21: after a stage that returned a predicate the working list (what the
\* next stage receives, or what is committed after the last stage) holds
\* exactly the items of the stage's list for which the predicate is true, in
\* their order: what a stage returning the filtered list would have left.
C21_Theorem ==
    \A r \in RunIds :
        \A k \in 1..Len(runs[r].invoked) :
            LET run == runs[r]
                res == Invoke(run.invoked[k], run.calls[k], r, k)
            IN  res.kind = "fn" =>
                  /\ k < Len(run.calls) =>
                        run.calls[k + 1].list =
                            Filtered(run.calls[k].list, res.pred)
                  /\ (k = Len(run.input.stages) /\ run.updates # <<>>) =>
                        run.updates[1] = Filtered(run.calls[k].list, res.pred)

\* A predicate stage kept the first and the third of three items, in that
\* order, for the stage after it, and the run committed what that stage made
\* of them.
C21_Witness ==
    \E r \in RunIds :
        /\ runs[r].invoked = <<"bySearchTerm", "byAge">>
        /\ runs[r].calls[1].list = <<jess, bob, jess12>>
        /\ runs[r].calls[2].list = <<jess, jess12>>
        /\ runs[r].updates = << <<jess12>> >>

\* C22 as stated: with the transform option omitted a run that starts with
\* transform data present invokes nothing, sets no error, calls no onError,
\* and commits the source list.
C22_Claim ==
    \A r \in RunIds :
        (options.transform.kind = "undefined" /\ runs[r].input.data # None) =>
            /\ runs[r].invoked = <<>>
            /\ runs[r].errors = <<>>
            /\ ~Has(runs[r], SET_ERROR)
            /\ runs[r].updates = <<runs[r].input.list>>

\* C23: a run keeps what it read when it started: the data, the previous
\* data and the stage list of the pass that started it.  Every stage it
\* calls, before or after an await, is the stage at that place of that list
\* and receives that data and previous data, whatever became of the
\* transform data and of the stage list in the meantime.
C23_Theorem ==
    [][\A r \in 1..Len(runs') :
          LET run == runs'[r]
          IN  /\ IF r <= Len(runs)
                 THEN run.input = runs[r].input
                 ELSE /\ run.input.data = ValueOf(renderedData)
                      /\ run.input.previousData = ValueOf(usePrevious(deps))
                      /\ run.input.stages = toArray(options.transform)
              /\ Len(run.calls) = Len(run.invoked)
              /\ Len(run.invoked) <= Len(run.input.stages)
              /\ \A k \in 1..Len(run.calls) :
                    /\ run.invoked[k] = run.input.stages[k]
                    /\ Some(run.calls[k].data) = run.input.data
                    /\ run.calls[k].previousData = run.input.previousData]_vars

\* A run called its second stage after its await, still current, when the
\* stage list had been replaced and other transform data had been set.
C23_Witness ==
    \E r \in RunIds :
        /\ r = transformListId
        /\ runs[r].invoked = <<"byAsync", "bySearchTerm">>
        /\ runs[r].status = "completed"
        /\ transforms # runs[r].input.stages
        /\ ValueOf(state.data) # runs[r].input.data
        /\ state.data # None

\* The pipeline result for the transform data and the source list held now.
CurrentResult ==
    IF state.data = None
    THEN [error |-> None, list |-> Some(options.list.items)]
    ELSE Pipeline(toArray(options.transform), options.list.items,
                  The(state.data).val,
                  runs[transformListId].input.previousData, transformListId, 1)

\* No run is due: the effects of the last pass have run and compared the
\* transform data and the list held now.
NoRunDue ==
    /\ ~pendingEffects
    /\ deps # None
    /\ The(deps).data = state.data
    /\ The(deps).list = options.list

C25_Theorem ==
    [][/\ state'.error # None => (state'.list = None /\ ~state'.loading)
       /\ state'.loading => state'.error = None
       /\ (state.list = None /\ state'.list # None) =>
             \E r \in 1..Len(runs') :
                 /\ SET_LIST \in NewEvents(r)
                 /\ state'.list = Some(runs'[r].updates[1])]_vars

\* The first run's error was applied; the second run has started and awaits
\* its stage: loading, no error, and still no list.
C25_Witness ==
    /\ transformListId = 2
    /\ Has(runs[1], SET_ERROR)
    /\ runs[2].trace = <<"onLoading(true)", SET_LOADING, "invoke">>
    /\ state.loading
    /\ state.error = None
    /\ state.list = None

\* A step that changes neither the list passed nor the transform data held
\* (a rendered object stays the same object).
NoChange ==
    /\ options'.list = options.list
    /\ state'.data = state.data \/ state'.data = Seen(state.data)

\* The latest-started run has returned and its list or its error is shown,
\* with loading false.
LatestApplied ==
    /\ transformListId >= 1
    /\ ~state.loading
    /\ LET run == runs[transformListId]
       IN  \/ /\ run.status = "completed"
              /\ Has(run, SET_LIST)
              /\ state.list = Some(run.updates[1])
              /\ state.error = None
           \/ /\ run.status = "failed"
              /\ Has(run, SET_ERROR)
              /\ state.error = run.caught
              /\ state.list = None

\* C26: the latest-started run never returns without a commit, and if from
\* some point on neither the list nor the data changes, then from some point
\* on loading is false for good, with the list or the error of the
\* latest-started run shown.
C26_Theorem ==
    /\ [](transformListId >= 1 => runs[transformListId].status # "aborted")
    /\ <>[][NoChange]_vars => <>[]LatestApplied

\* The latest-started run was suspended behind a superseded run, and has
\* committed its list.
C26_Witness ==
    /\ transformListId = 2
    /\ LatestApplied
    /\ runs[2].trace = <<"onLoading(true)", SET_LOADING, "invoke",
                         "onLoading(false)", "onListUpdate", SET_LIST>>
    /\ runs[2].input.stages = <<"byAsyncMaybeError">>
    /\ runs[1].status = "suspended"

\* C27: a pass that brings another stage list while the list passed and the
\* transform data are those of the pass before starts no run: the evaluation
\* and its effects leave the run identifier, the runs, the list, loading and
\* the error as they were and only refresh transforms.current; a run starts
\* only in the effects of a pass whose list or data differ (or of the first
\* pass), and it takes the stage list of that pass.
C27_Theorem ==
    [][/\ options'.transform # options.transform =>
             /\ transformListId' = transformListId
             /\ runs' = runs
             /\ state'.list = state.list
             /\ state'.loading = state.loading
             /\ state'.error = state.error
       /\ (EffectsDone /\ deps # None /\ The(deps).data = renderedData
              /\ The(deps).list = options.list) =>
             /\ transformListId' = transformListId
             /\ runs' = runs
             /\ state' = state
             /\ transforms' = toArray(options.transform)
       /\ Len(runs') > Len(runs) =>
             /\ EffectsDone
             /\ \/ deps = None
                \/ The(deps).data # renderedData
                \/ The(deps).list # options.list
             /\ runs'[Len(runs')].input.stages = toArray(options.transform)
             /\ transforms' = toArray(options.transform)]_vars

\* The stage list was replaced after the first run had committed: the new
\* stages are in transforms.current, no run is due, and the list shown is
\* still the one the first run committed with the stages it started with.
C27_Witness ==
    /\ transformListId = 1
    /\ NoRunDue
    /\ runs[1].status = "completed"
    /\ runs[1].invoked = runs[1].input.stages
    /\ transforms # runs[1].input.stages
    /\ transforms = <<"bySearchTerm", "byAge">>
    /\ state.list = Some(runs[1].updates[1])
    /\ state.list # Pipeline(transforms, options.list.items,
                             The(state.data).val, None, 1, 1).list

====
